---- MODULE Spec2Model ----
(***************************************************************************)
(* A model of app.py: generate_documents (read the spreadsheet, render one *)
(* document per record, name the output, back up, merge, clean up) and the *)
(* button handler of main that calls it (download, zip, removal).          *)
(*                                                                         *)
(* File names are sequences of one-character strings, so that string       *)
(* equality (two names hitting the same path) and Python's code-point      *)
(* ordering of names are computed, not assumed. A document's content is    *)
(* the sequence of its segments; rendering one record gives a document of  *)
(* one segment, and the composer appends segment sequences.                *)
(***************************************************************************)
EXTENDS Integers, Sequences, FiniteSets, TLC

(* ------------------------------ bounds -------------------------------- *)
\* Longest spreadsheet (number of data rows) of the single-session model.
MaxRecords == 2
\* Longest spreadsheet of each session in the two-session model.
MaxConcRecords == 2
\* Last instant of the wall clock, in ticks.
MaxClock == 3
\* Clock ticks per second: strftime's %S drops what is below one second.
TicksPerSecond == 2
\* Largest 1-based record index of the file-name model.
MaxIndex == 1000

(* ------------------------- program constants -------------------------- *)
\* The minimum width of the index in f"{i+1:03d}".
PadWidth == 3

Procs == {1, 2}

\* Python's None; main also turns an empty text input into None.
None == <<>>

(* ------------------------------ strings ------------------------------- *)
DigitChars == <<"0", "1", "2", "3", "4", "5", "6", "7", "8", "9">>

\* The characters the names are made of, in code-point order.
AsciiOrder ==
  <<".", "/", "0", "1", "2", "3", "4", "5", "6", "7", "8", "9", "_",
    "a", "b", "c", "d", "e", "f", "g", "h", "i", "j", "k", "l", "m",
    "n", "o", "p", "q", "r", "s", "t", "u", "v", "w", "x", "y", "z">>

Ord(c) == CHOOSE k \in 1..Len(AsciiOrder) : AsciiOrder[k] = c

\* s < t for Python strings: the first differing character decides, and a
\* proper prefix sorts first.
StrLess(s, t) ==
  \E k \in 1..Len(t) :
    /\ \A m \in 1..(k - 1) : m <= Len(s) /\ s[m] = t[m]
    /\ \/ k = Len(s) + 1
       \/ k <= Len(s) /\ Ord(s[k]) < Ord(t[k])

RECURSIVE Digits(_)
Digits(n) ==
  IF n < 10 THEN <<DigitChars[n + 1]>>
  ELSE Digits(n \div 10) \o <<DigitChars[(n % 10) + 1]>>

RECURSIVE ZeroPad(_, _)
ZeroPad(s, w) == IF Len(s) >= w THEN s ELSE ZeroPad(<<"0">> \o s, w)

\* format(n, "03d")
Fmt03d(n) == ZeroPad(Digits(n), PadWidth)

temp_dir ==
  <<"t", "e", "m", "p", "_", "i", "n", "d", "i", "v", "i", "d", "u", "a", "l",
    "_", "d", "o", "c", "s">>

DotDocx == <<".", "d", "o", "c", "x">>

GeneratedDocPrefix ==
  <<"g", "e", "n", "e", "r", "a", "t", "e", "d", "_", "d", "o", "c", "_">>

DocPrefix == <<"d", "o", "c", "_">>

MergedPrefix ==
  <<"m", "e", "r", "g", "e", "d", "_", "d", "o", "c", "u", "m", "e", "n", "t", "_">>

BackupPrefix == <<"b", "a", "c", "k", "u", "p", "_">>

\* out_name of the record with 1-based index idx (the code's i + 1).
out_name(idx, keep) ==
  IF keep THEN GeneratedDocPrefix \o Fmt03d(idx) \o DotDocx
  ELSE temp_dir \o <<"/">> \o DocPrefix \o Fmt03d(idx) \o DotDocx

\* datetime.now().strftime("%Y%m%d_%H%M%S") at instant t: the whole seconds
\* of t, written in digits; what is below a second is dropped.
Strftime(t) == Digits(t \div TicksPerSecond)

MergedName(t) == MergedPrefix \o Strftime(t) \o DotDocx

BackupName(t, name) == BackupPrefix \o Strftime(t) \o <<"_">> \o name

\* Whether path p lies directly in directory d.
InDir(p, d) ==
  /\ Len(p) > Len(d) + 1
  /\ SubSeq(p, 1, Len(d)) = d
  /\ p[Len(d) + 1] = "/"

\* os.path.basename: what follows the last "/".
RECURSIVE basename(_)
basename(p) ==
  IF \E k \in 1..Len(p) : p[k] = "/"
  THEN basename(SubSeq(p, (CHOOSE k \in 1..Len(p) : p[k] = "/") + 1, Len(p)))
  ELSE p

(* --------------------------- record source ---------------------------- *)
Marker == "_x000D_"

RawCells == {"a", Marker}

\* replace_text on the cell values of the model: the marker becomes a period.
replace_text(text) == IF text = Marker THEN "." ELSE text

\* process_dataframe: every record's value goes through replace_text.
process_dataframe(df) == [k \in 1..Len(df) |-> replace_text(df[k])]

\* DocxTemplate(template).render(context): a document of one segment.
Render(context) == <<context>>

RECURSIVE SeqsUpTo(_, _)
SeqsUpTo(S, n) ==
  IF n = 0 THEN {<<>>}
  ELSE LET shorter == SeqsUpTo(S, n - 1)
       IN shorter \cup {Append(s, x) : s \in {t \in shorter : Len(t) = n - 1}, x \in S}

(* ------------------------------- inputs ------------------------------- *)
\* A name a user may type that is no name the program makes.
CustomName == <<"o", "u", "t", ".", "d", "o", "c", "x">>

\* A name a user may type that the program also gives to a kept document.
TypedGeneratedName ==
  <<"g", "e", "n", "e", "r", "a", "t", "e", "d", "_", "d", "o", "c", "_",
    "0", "0", "1", ".", "d", "o", "c", "x">>

\* The second session's own output name.
OtherName == <<"b", ".", "d", "o", "c", "x">>

\* The content of a file that was on disk before the run.
OldContent == <<"old">>

(* ------------------------------- state -------------------------------- *)
VARIABLES
  fs,     \* the files on disk: path -> content
  fs0,    \* the files on disk before the run (never changes)
  dirs,   \* the directories on disk besides the working directory
  clock,  \* the wall clock at its last reading, in ticks
  zipf,   \* the entries of individual_documents.zip: name -> content
  st,     \* per session: the locals of main's handler and generate_documents
  ni, nj, nkeep  \* the file-name model: two record indices and the mode

vars == <<fs, fs0, dirs, clock, zipf, st, ni, nj, nkeep>>

NoZip == <<>>

Range(s) == {s[k] : k \in 1..Len(s)}

exists(path) == path \in DOMAIN fs

Write(f, path, content) == [q \in DOMAIN f \cup {path} |-> IF q = path THEN content ELSE f[q]]

Remove(f, path) == [q \in DOMAIN f \ {path} |-> f[q]]

\* Saving into a directory that is not there raises FileNotFoundError.
ParentMissing(path) == InDir(path, temp_dir) /\ temp_dir \notin dirs

\* A slip in the slice: generated_files[2:], one file short.
RestFilesOneShort(files) == IF Len(files) > 1 THEN Tail(Tail(files)) ELSE <<>>

\* generated_files[1:], what the composer appends to the master.
RestFiles(files) == Tail(files)

\* A slip in the cleanup loop: it goes through generated_files[1:] only.
CleanupFilesButFirst(files) == IF files = <<>> THEN <<>> ELSE Tail(files)

\* The files the cleanup loop of generate_documents goes through.
CleanupFiles(files) == files

Locals(df, keep, backup, name, pc0) ==
  [ pc |-> pc0,
    df |-> df,
    keep_individual |-> keep,
    create_backup |-> backup,
    output_filename |-> name,
    records |-> <<>>,
    loaded |-> FALSE,        \* history: the spreadsheet was read into records
    generated_files |-> <<>>,
    i |-> 0,
    composer |-> <<>>,
    consumed |-> <<>>,       \* history: the files the merge read, in order
    backup_name |-> None,
    synthesized |-> FALSE,   \* history: the output name was made from the clock
    failedAt |-> 0,          \* history: 1-based index of the record whose rendering failed
    delFailed |-> {},        \* history: the paths a removal failed on
    saved |-> FALSE,         \* history: composer.save has written the output
    merged |-> <<>>,         \* history: what composer.save wrote
    ret |-> <<None, None>>,
    report |-> <<>>,         \* the st.success / st.error messages shown, in order
    download |-> <<>>,       \* the documents handed to the first download button
    zipped |-> FALSE,        \* history: the zip was written and handed over
    archive |-> NoZip ]      \* the zip handed to the second download button

(* ------------------------ generate_documents -------------------------- *)
\* pd.read_excel and process_dataframe.
ReadExcel(p) ==
  /\ st[p].pc = "start"
  /\ st' = [st EXCEPT ![p].records = process_dataframe(st[p].df),
                      ![p].loaded = TRUE,
                      ![p].pc = "mkdir"]
  /\ UNCHANGED <<fs, fs0, dirs, clock, zipf, ni, nj, nkeep>>

\* pd.read_excel raises: the file is no readable table.
ReadExcelFail(p) ==
  /\ st[p].pc = "start"
  /\ st' = [st EXCEPT ![p].pc = "except"]
  /\ UNCHANGED <<fs, fs0, dirs, clock, zipf, ni, nj, nkeep>>

\* if not keep_individual: temp_dir.mkdir(exist_ok=True)
MakeTempDir(p) ==
  /\ st[p].pc = "mkdir"
  /\ dirs' = IF st[p].keep_individual THEN dirs ELSE dirs \cup {temp_dir}
  /\ st' = [st EXCEPT ![p].pc = "loop"]
  /\ UNCHANGED <<fs, fs0, clock, zipf, ni, nj, nkeep>>

\* One round of the loop: render record i + 1 and save it under out_name.
RenderRecord(p) ==
  /\ st[p].pc = "loop"
  /\ st[p].i < Len(st[p].records)
  /\ LET name == out_name(st[p].i + 1, st[p].keep_individual)
     IN IF ParentMissing(name)
        THEN /\ st' = [st EXCEPT ![p].pc = "except"]
             /\ fs' = fs
        ELSE /\ fs' = Write(fs, name, Render(st[p].records[st[p].i + 1]))
             /\ st' = [st EXCEPT ![p].generated_files = Append(@, name),
                                 ![p].i = @ + 1]
  /\ UNCHANGED <<fs0, dirs, clock, zipf, ni, nj, nkeep>>

\* doc.render (or DocxTemplate, or doc.save) raises for record i + 1.
RenderFail(p) ==
  /\ st[p].pc = "loop"
  /\ st[p].i < Len(st[p].records)
  /\ st' = [st EXCEPT ![p].failedAt = st[p].i + 1, ![p].pc = "except"]
  /\ UNCHANGED <<fs, fs0, dirs, clock, zipf, ni, nj, nkeep>>

\* The loop is over; if output_filename is None, name the output by the clock.
SetOutputName(p) ==
  /\ st[p].pc = "loop"
  /\ st[p].i = Len(st[p].records)
  /\ IF st[p].output_filename = None
     THEN \E t \in clock..MaxClock :
            /\ clock' = t
            /\ st' = [st EXCEPT ![p].output_filename = MergedName(t),
                                ![p].synthesized = TRUE,
                                ![p].pc = "backup"]
     ELSE /\ clock' = clock
          /\ st' = [st EXCEPT ![p].pc = "backup"]
  /\ UNCHANGED <<fs, fs0, dirs, zipf, ni, nj, nkeep>>

\* if create_backup and os.path.exists(output_filename): shutil.copy2(...)
CreateBackup(p) ==
  /\ st[p].pc = "backup"
  /\ IF st[p].create_backup /\ exists(st[p].output_filename)
     THEN \E t \in clock..MaxClock :
            LET name == BackupName(t, st[p].output_filename)
            IN /\ clock' = t
               /\ fs' = Write(fs, name, fs[st[p].output_filename])
               /\ st' = [st EXCEPT ![p].backup_name = name, ![p].pc = "master"]
     ELSE /\ clock' = clock
          /\ fs' = fs
          /\ st' = [st EXCEPT ![p].pc = "master"]
  /\ UNCHANGED <<fs0, dirs, zipf, ni, nj, nkeep>>

\* master = Document(generated_files[0]); composer = Composer(master).
\* An empty list raises IndexError, a missing file raises too.
OpenMaster(p) ==
  /\ st[p].pc = "master"
  /\ IF st[p].generated_files = <<>> \/ ~exists(Head(st[p].generated_files))
     THEN st' = [st EXCEPT ![p].pc = "except"]
     ELSE st' = [st EXCEPT ![p].composer = fs[Head(st[p].generated_files)],
                           ![p].consumed = <<Head(st[p].generated_files)>>,
                           ![p].i = 1,
                           ![p].pc = "append"]
  /\ UNCHANGED <<fs, fs0, dirs, clock, zipf, ni, nj, nkeep>>

\* for file in generated_files[1:]: composer.append(Document(file))
AppendFile(p) ==
  /\ st[p].pc = "append"
  /\ st[p].i <= Len(RestFiles(st[p].generated_files))
  /\ LET file == RestFiles(st[p].generated_files)[st[p].i]
     IN IF ~exists(file)
        THEN st' = [st EXCEPT ![p].pc = "except"]
        ELSE st' = [st EXCEPT ![p].composer = @ \o fs[file],
                              ![p].consumed = Append(@, file),
                              ![p].i = @ + 1]
  /\ UNCHANGED <<fs, fs0, dirs, clock, zipf, ni, nj, nkeep>>

\* composer.save(output_filename)
SaveMerged(p) ==
  /\ st[p].pc = "append"
  /\ st[p].i > Len(RestFiles(st[p].generated_files))
  /\ fs' = Write(fs, st[p].output_filename, st[p].composer)
  /\ st' = [st EXCEPT ![p].saved = TRUE,
                      ![p].merged = st[p].composer,
                      ![p].i = 1,
                      ![p].pc = IF st[p].keep_individual THEN "return" ELSE "cleanup"]
  /\ UNCHANGED <<fs0, dirs, clock, zipf, ni, nj, nkeep>>

\* One round of the cleanup loop: os.remove(file) removes the file.
RemoveFile(p) ==
  /\ st[p].pc = "cleanup"
  /\ st[p].i <= Len(CleanupFiles(st[p].generated_files))
  /\ exists(CleanupFiles(st[p].generated_files)[st[p].i])
  /\ fs' = Remove(fs, CleanupFiles(st[p].generated_files)[st[p].i])
  /\ st' = [st EXCEPT ![p].i = @ + 1]
  /\ UNCHANGED <<fs0, dirs, clock, zipf, ni, nj, nkeep>>

\* One round of the cleanup loop: os.remove(file) raises (the file is gone,
\* locked or protected) and except: pass goes on; the file stays as it is.
RemoveFileFail(p) ==
  /\ st[p].pc = "cleanup"
  /\ st[p].i <= Len(CleanupFiles(st[p].generated_files))
  /\ st' = [st EXCEPT ![p].delFailed =
                        @ \cup {CleanupFiles(st[p].generated_files)[st[p].i]},
                      ![p].i = @ + 1]
  /\ UNCHANGED <<fs, fs0, dirs, clock, zipf, ni, nj, nkeep>>

\* if temp_dir.exists() and not any(temp_dir.iterdir()): temp_dir.rmdir()
RemoveTempDir(p) ==
  /\ st[p].pc = "cleanup"
  /\ st[p].i > Len(CleanupFiles(st[p].generated_files))
  /\ dirs' = IF temp_dir \in dirs /\ ~(\E q \in DOMAIN fs : InDir(q, temp_dir))
             THEN dirs \ {temp_dir} ELSE dirs
  /\ st' = [st EXCEPT ![p].pc = "return"]
  /\ UNCHANGED <<fs, fs0, clock, zipf, ni, nj, nkeep>>

\* temp_dir.rmdir() (or exists, or iterdir) raises: except: pass.
RemoveTempDirFail(p) ==
  /\ st[p].pc = "cleanup"
  /\ st[p].i > Len(CleanupFiles(st[p].generated_files))
  /\ temp_dir \in dirs
  /\ st' = [st EXCEPT ![p].delFailed = @ \cup {temp_dir}, ![p].pc = "return"]
  /\ UNCHANGED <<fs, fs0, dirs, clock, zipf, ni, nj, nkeep>>

\* return output_filename, generated_files if keep_individual else None
Return(p) ==
  /\ st[p].pc = "return"
  /\ st' = [st EXCEPT ![p].ret = <<st[p].output_filename,
                                   IF st[p].keep_individual
                                   THEN st[p].generated_files ELSE None>>,
                      ![p].pc = "returned"]
  /\ UNCHANGED <<fs, fs0, dirs, clock, zipf, ni, nj, nkeep>>

\* except Exception: st.error(...); return None, None
Except(p) ==
  /\ st[p].pc = "except"
  /\ st' = [st EXCEPT ![p].ret = <<None, None>>,
                      ![p].report = Append(@, "generation error"),
                      ![p].pc = "returned"]
  /\ UNCHANGED <<fs, fs0, dirs, clock, zipf, ni, nj, nkeep>>

GenerateDocuments(p) ==
  \/ ReadExcel(p)
  \/ ReadExcelFail(p)
  \/ MakeTempDir(p)
  \/ RenderRecord(p)
  \/ RenderFail(p)
  \/ SetOutputName(p)
  \/ CreateBackup(p)
  \/ OpenMaster(p)
  \/ AppendFile(p)
  \/ SaveMerged(p)
  \/ RemoveFile(p)
  \/ RemoveFileFail(p)
  \/ RemoveTempDir(p)
  \/ RemoveTempDirFail(p)
  \/ Return(p)
  \/ Except(p)

(* ------------------------- main: the handler -------------------------- *)
\* if output_file: st.success(...). Otherwise the handler is over.
CheckOutput(p) ==
  /\ st[p].pc = "returned"
  /\ IF st[p].ret[1] # None
     THEN st' = [st EXCEPT ![p].report = Append(@, "success"), ![p].pc = "download"]
     ELSE st' = [st EXCEPT ![p].pc = "done"]
  /\ UNCHANGED <<fs, fs0, dirs, clock, zipf, ni, nj, nkeep>>

\* with open(output_file, 'rb') as f: st.download_button(data=f, ...)
DownloadMerged(p) ==
  /\ st[p].pc = "download"
  /\ IF ~exists(st[p].ret[1])
     THEN st' = [st EXCEPT ![p].pc = "main except"]
     ELSE st' = [st EXCEPT ![p].download = Append(@, fs[st[p].ret[1]]),
                           ![p].pc = IF st[p].keep_individual /\ st[p].ret[2] # <<>>
                                     THEN "zip" ELSE "remove output"]
  /\ UNCHANGED <<fs, fs0, dirs, clock, zipf, ni, nj, nkeep>>

\* The zip as the handler would write it if it also packed the merged document.
ZipEntriesWithMerged(p) ==
  [n \in {basename(f) : f \in Range(st[p].ret[2]) \cup {st[p].ret[1]}} |->
     fs[CHOOSE f \in Range(st[p].ret[2]) \cup {st[p].ret[1]} : basename(f) = n]]

\* The entries the handler writes to the zip: zipf.write(file, basename(file))
\* for each of individual_files.
ZipEntries(p) ==
  [n \in {basename(f) : f \in Range(st[p].ret[2])} |->
     fs[CHOOSE f \in Range(st[p].ret[2]) : basename(f) = n]]

\* with zipfile.ZipFile(zip_path, 'w') as zipf: ...; then the zip is opened
\* and handed to the second download button.
MakeZip(p) ==
  /\ st[p].pc = "zip"
  /\ IF \E f \in Range(st[p].ret[2]) : ~exists(f)
     THEN /\ st' = [st EXCEPT ![p].pc = "main except"]
          /\ zipf' = zipf
     ELSE /\ zipf' = ZipEntries(p)
          /\ st' = [st EXCEPT ![p].zipped = TRUE,
                              ![p].archive = ZipEntries(p),
                              ![p].i = 1,
                              ![p].pc = "remove individual"]
  /\ UNCHANGED <<fs, fs0, dirs, clock, ni, nj, nkeep>>

\* for file in individual_files: os.remove(file)
RemoveIndividual(p) ==
  /\ st[p].pc = "remove individual"
  /\ st[p].i <= Len(st[p].ret[2])
  /\ exists(st[p].ret[2][st[p].i])
  /\ fs' = Remove(fs, st[p].ret[2][st[p].i])
  /\ st' = [st EXCEPT ![p].i = @ + 1]
  /\ UNCHANGED <<fs0, dirs, clock, zipf, ni, nj, nkeep>>

\* os.remove(file) raises in the handler's loop: nothing catches it before
\* the handler's own except.
RemoveIndividualFail(p) ==
  /\ st[p].pc = "remove individual"
  /\ st[p].i <= Len(st[p].ret[2])
  /\ st' = [st EXCEPT ![p].delFailed = @ \cup {st[p].ret[2][st[p].i]},
                      ![p].pc = "main except"]
  /\ UNCHANGED <<fs, fs0, dirs, clock, zipf, ni, nj, nkeep>>

\* os.remove(zip_path)
RemoveZip(p) ==
  /\ st[p].pc = "remove individual"
  /\ st[p].i > Len(st[p].ret[2])
  /\ zipf' = NoZip
  /\ st' = [st EXCEPT ![p].pc = "remove output"]
  /\ UNCHANGED <<fs, fs0, dirs, clock, ni, nj, nkeep>>

\* if os.path.exists(output_file): os.remove(output_file)
RemoveOutput(p) ==
  /\ st[p].pc = "remove output"
  /\ fs' = IF exists(st[p].ret[1]) THEN Remove(fs, st[p].ret[1]) ELSE fs
  /\ st' = [st EXCEPT ![p].pc = "done"]
  /\ UNCHANGED <<fs0, dirs, clock, zipf, ni, nj, nkeep>>

\* except Exception as e: st.error(f"Error: {str(e)}")
MainExcept(p) ==
  /\ st[p].pc = "main except"
  /\ st' = [st EXCEPT ![p].report = Append(@, "error"), ![p].pc = "done"]
  /\ UNCHANGED <<fs, fs0, dirs, clock, zipf, ni, nj, nkeep>>

Handler(p) ==
  \/ CheckOutput(p)
  \/ DownloadMerged(p)
  \/ MakeZip(p)
  \/ RemoveIndividual(p)
  \/ RemoveIndividualFail(p)
  \/ RemoveZip(p)
  \/ RemoveOutput(p)
  \/ MainExcept(p)

(* --------------------------- specifications --------------------------- *)
Off == Locals(<<>>, FALSE, FALSE, None, "off")

\* The files that may be on disk before a run: any of the names a user may
\* type, each holding an older document.
InitialDisks(names) ==
  {[q \in present |-> OldContent] : present \in SUBSET names}

\* One session: the button is pressed once, with any inputs.
Init ==
  /\ fs \in InitialDisks({CustomName, TypedGeneratedName})
  /\ fs0 = fs
  /\ dirs = {}
  /\ clock = 0
  /\ zipf = NoZip
  /\ \E df \in SeqsUpTo(RawCells, MaxRecords), keep \in BOOLEAN, backup \in BOOLEAN,
        name \in {None, CustomName, TypedGeneratedName} :
        st = [p \in Procs |-> IF p = 1 THEN Locals(df, keep, backup, name, "start") ELSE Off]
  /\ ni = 1 /\ nj = 2 /\ nkeep = FALSE

Next == \E p \in Procs : GenerateDocuments(p) \/ Handler(p)

Spec == Init /\ [][Next]_vars

\* Two sessions of the same server call generate_documents at once, each
\* with its own spreadsheet and no output name or one of its own.
InitConc ==
  /\ fs = <<>>
  /\ fs0 = fs
  /\ dirs = {}
  /\ clock = 0
  /\ zipf = NoZip
  /\ \E df1 \in SeqsUpTo({"a"}, MaxConcRecords), df2 \in SeqsUpTo({Marker}, MaxConcRecords),
        keep1 \in BOOLEAN, keep2 \in BOOLEAN,
        name1 \in {None, CustomName}, name2 \in {None, OtherName} :
        st = [p \in Procs |-> IF p = 1 THEN Locals(df1, keep1, TRUE, name1, "start")
                                       ELSE Locals(df2, keep2, TRUE, name2, "start")]
  /\ ni = 1 /\ nj = 2 /\ nkeep = FALSE

NextConc == \E p \in Procs : GenerateDocuments(p)

SpecConc == InitConc /\ [][NextConc]_vars

\* The file names alone: every pair of record indices i < j of a batch.
InitNames ==
  /\ fs = <<>> /\ fs0 = <<>> /\ dirs = {} /\ clock = 0 /\ zipf = NoZip
  /\ st = [p \in Procs |-> Off]
  /\ ni = 1 /\ nj = 2 /\ nkeep \in BOOLEAN

NextRecord ==
  /\ nj < MaxIndex
  /\ nj' = nj + 1
  /\ UNCHANGED <<fs, fs0, dirs, clock, zipf, st, ni, nkeep>>

LaterFirst ==
  /\ ni + 1 < nj
  /\ ni' = ni + 1
  /\ UNCHANGED <<fs, fs0, dirs, clock, zipf, st, nj, nkeep>>

NextNames == NextRecord \/ LaterFirst

SpecNames == InitNames /\ [][NextNames]_vars

(* ------------------------------ claims -------------------------------- *)
\* The renderings of the records, one after the other.
RECURSIVE ConcatRenders(_)
ConcatRenders(recs) ==
  IF recs = <<>> THEN <<>> ELSE Render(Head(recs)) \o ConcatRenders(Tail(recs))

\* The names out_name gives the n records of a batch, in row order.
BatchNames(n, keep) == [k \in 1..n |-> out_name(k, keep)]

IsBackup(path) ==
  Len(path) > Len(BackupPrefix) /\ SubSeq(path, 1, Len(BackupPrefix)) = BackupPrefix

\* C1: once a run has merged and saved, the list of generated files has one
\* entry per record, entry k is the name of record k, the merge has read the
\* files in exactly that order, each once, and what it wrote is the renderings
\* of records 1..n in row order.
C1_MergeKeepsRowOrder ==
  \A p \in Procs :
    st[p].saved =>
      /\ Len(st[p].records) > 0
      /\ st[p].generated_files = BatchNames(Len(st[p].records), st[p].keep_individual)
      /\ st[p].consumed = st[p].generated_files
      /\ st[p].merged = ConcatRenders(st[p].records)

C1_Witness ==
  \E p \in Procs :
    /\ st[p].saved
    /\ Len(st[p].records) >= 2
    /\ st[p].records[1] # st[p].records[2]

\* C2: with a file at the output path before the run and create_backup set,
\* once the merged document is saved there is exactly one new backup file, it
\* holds what the output path held before the run, and when generate_documents
\* has returned the output path holds the merged document.
C2_BackupHoldsPreRunContent ==
  \A p \in Procs :
    (st[p].saved /\ st[p].create_backup /\ st[p].output_filename \in DOMAIN fs0) =>
      /\ st[p].backup_name # None
      /\ exists(st[p].backup_name)
      /\ fs[st[p].backup_name] = fs0[st[p].output_filename]
      /\ Cardinality({q \in DOMAIN fs \ DOMAIN fs0 : IsBackup(q)}) = 1
      /\ st[p].pc = "returned" => fs[st[p].output_filename] = st[p].merged

\* C3: when the rendering of record k fails, generate_documents returns with
\* no later record rendered, no backup made, nothing merged or saved, and none
\* of the files of records 1..k-1 left on disk.
C3_RenderFailureLeavesNothing ==
  \A p \in Procs :
    (st[p].pc = "returned" /\ st[p].failedAt > 0) =>
      /\ Len(st[p].generated_files) = st[p].failedAt - 1
      /\ st[p].backup_name = None
      /\ st[p].consumed = <<>>
      /\ ~st[p].saved
      /\ \A k \in 1..(st[p].failedAt - 1) : ~exists(out_name(k, st[p].keep_individual))

\* C4: for a spreadsheet with no rows, generate_documents returns without an
\* error shown and with the disk as it was: no directory made, no file
\* written, no backup copied.
C4_EmptyBatchIsNoOp ==
  \A p \in Procs :
    (st[p].pc = "returned" /\ st[p].loaded /\ st[p].records = <<>>) =>
      /\ st[p].report = <<>>
      /\ st[p].backup_name = None
      /\ fs = fs0
      /\ dirs = {}

\* C5 as stated: with keep_individual false, when generate_documents has
\* returned after saving, none of the run's per-record files is on disk.
C5_NoIntermediateLeft ==
  \A p \in Procs :
    (st[p].pc = "returned" /\ st[p].saved /\ ~st[p].keep_individual) =>
      \A f \in Range(st[p].generated_files) : ~exists(f)

\* C5 as amended: with keep_individual false, when generate_documents has
\* returned after saving, every per-record file of the run is off the disk
\* except those whose os.remove raised.
C5_IntermediateGoneUnlessRemoveFailed ==
  \A p \in Procs :
    (st[p].pc = "returned" /\ st[p].saved /\ ~st[p].keep_individual) =>
      \A f \in Range(st[p].generated_files) : exists(f) => f \in st[p].delFailed

C5_Witness ==
  \E p \in Procs :
    /\ st[p].pc = "returned" /\ st[p].saved /\ ~st[p].keep_individual
    /\ \E f, g \in Range(st[p].generated_files) :
         /\ f \in st[p].delFailed /\ exists(f)
         /\ g \notin st[p].delFailed /\ ~exists(g)

\* C6: when the merged output has been written and a removal of a per-record
\* file or of the directory has failed, the handler ends having reported
\* success, and only success, for the merged output path.
C6_RemoveFailureNeverReported ==
  \A p \in Procs :
    (st[p].pc = "done" /\ st[p].saved /\ st[p].delFailed # {}) =>
      /\ st[p].ret[1] = st[p].output_filename
      /\ st[p].report = <<"success">>

\* C7: two runs that are both given no output name, and that both get to save
\* their merged document, saved it under different names.
C7_SynthesizedNamesDiffer ==
  \A p, q \in Procs :
    (p # q /\ st[p].synthesized /\ st[q].synthesized /\ st[p].saved /\ st[q].saved) =>
      st[p].output_filename # st[q].output_filename

\* C8 as stated: the zip the handler hands over holds every per-record
\* document and the merged document.
C8_ZipHoldsMerged ==
  \A p \in Procs :
    st[p].zipped =>
      /\ \A f \in Range(st[p].generated_files) : basename(f) \in DOMAIN st[p].archive
      /\ basename(st[p].output_filename) \in DOMAIN st[p].archive

\* C8 as amended: the zip the handler hands over holds exactly one entry per
\* record, under the base name of the record's file and with that file's
\* content: the rendering of the record, or the merged document when the
\* output path is that very file. The merged document gets no entry of its own.
C8_ZipHoldsIndividualsOnly ==
  \A p \in Procs :
    st[p].zipped =>
      LET n == Len(st[p].records)
      IN /\ st[p].keep_individual /\ st[p].saved
         /\ DOMAIN st[p].archive = {basename(out_name(k, TRUE)) : k \in 1..n}
         /\ \A k \in 1..n :
              st[p].archive[basename(out_name(k, TRUE))] =
                IF out_name(k, TRUE) = st[p].output_filename
                THEN st[p].merged ELSE Render(st[p].records[k])

C8_Witness ==
  \E p \in Procs :
    /\ st[p].zipped
    /\ Len(st[p].records) >= 2
    /\ basename(st[p].output_filename) \notin DOMAIN st[p].archive

\* C9: for record indices i < j of one batch, the names of records i and j
\* differ and the name of i sorts before the name of j as a string.
C9_NamesSortInRowOrder ==
  ni < nj =>
    /\ out_name(ni, nkeep) # out_name(nj, nkeep)
    /\ StrLess(out_name(ni, nkeep), out_name(nj, nkeep))

\* C10: when two sessions that were given different output paths run at once,
\* what each saves is the renderings of its own records, in row order.
C10_MergedFromOwnRecords ==
  \A p \in Procs :
    ( /\ st[p].saved
      /\ ~st[1].synthesized /\ st[1].output_filename # None
      /\ ~st[2].synthesized /\ st[2].output_filename # None
      /\ st[1].output_filename # st[2].output_filename ) =>
      st[p].merged = ConcatRenders(st[p].records)

====
